---------------------------- MODULE Spec2Model ----------------------------
(***************************************************************************)
(* auto_subtitle/cli.py: main(), get_audio(), get_subtitles() and          *)
(* write_styled_srt() as a state machine.                                  *)
(*                                                                         *)
(* Representation.                                                         *)
(*   - A text (str) is a sequence of Unicode code points, so that strip(), *)
(*     upper() and the f-string joins are computed, not assumed.           *)
(*   - A timestamp is an integer number of milliseconds (the code carries  *)
(*     float seconds; format_timestamp rounds to milliseconds).            *)
(*   - A path is a record [dir, stem, ext]; os.path.join(d, stem + ".ext") *)
(*     builds one.                                                         *)
(*   - utils.filename is imported from a module that is not part of the    *)
(*     sources: it is an unknown function from paths to names, fixed for   *)
(*     the run.                                                            *)
(*   - A dict is a sequence of [key, value] records in insertion order.    *)
(*   - A segment is a record with fields start, end, text and, when the    *)
(*     transcription carries word timing, words.                           *)
(*   - External collaborators (ffmpeg, the whisper model) answer           *)
(*     nondeterministically: they succeed or raise.                        *)
(***************************************************************************)
EXTENDS Integers, Sequences, FiniteSets

VARIABLES
    pc,             \* where main() is: "parse_args", "get_audio", "get_subtitles",
                    \* "render", "done", "aborted" (a video's step raised),
                    \* "crashed" (KeyError while reading the arguments)
    model_name,     \* --model
    language,       \* --language
    filename,       \* utils.filename: the name it returns for each video path
    video,          \* args["video"]: the batch of input paths
    output_srt,     \* --output_srt
    srt_only,       \* --srt_only
    i,              \* index of the running loop's next iteration
    audio_paths,    \* get_audio's dict: video path -> wav path
    subtitles_path, \* get_subtitles' dict: video path -> srt path
    result,         \* get_subtitles' local: the last transcription result's segments
    subtitle_data,  \* get_subtitles' local: the cue list built from result
    fs,             \* files the run wrote: path -> content
    renders,        \* the ffmpeg renders that ran to completion, in order
    saved,          \* videos for which "Saved subtitled video to ..." was printed
    failed          \* the video whose step raised, as a sequence of length <= 1

vars == << pc, model_name, language, filename, video, output_srt, srt_only, i,
           audio_paths, subtitles_path, result, subtitle_data, fs, renders,
           saved, failed >>

---------------------------------------------------------------------------
(* Bounds of the model. *)

MaxVideos == 2
MaxWords == 3
MaxSegs == 2

---------------------------------------------------------------------------
(* Characters and strings.  A character is its Unicode code point.         *)

\* str.isspace(), the characters str.strip() removes
IsSpace(c) ==
    c \in (9..13) \cup (28..32) \cup { 133, 160, 5760 } \cup (8192..8202)
          \cup { 8232, 8233, 8239, 8287, 12288 }

\* str.upper(), characters with a one-character upper case: << lo, hi, step,
\* delta >> maps lo, lo + step, ..., hi to themselves plus delta
UpperRules ==
   {
      <<97, 122, 1, -32>>, <<181, 181, 1, 743>>, <<224, 246, 1, -32>>,
      <<248, 254, 1, -32>>, <<255, 255, 1, 121>>, <<257, 303, 2, -1>>,
      <<305, 305, 1, -232>>, <<307, 311, 2, -1>>, <<314, 328, 2, -1>>,
      <<331, 375, 2, -1>>, <<378, 382, 2, -1>>, <<383, 383, 1, -300>>,
      <<384, 384, 1, 195>>, <<387, 389, 2, -1>>, <<392, 392, 1, -1>>,
      <<396, 396, 1, -1>>, <<402, 402, 1, -1>>, <<405, 405, 1, 97>>,
      <<409, 409, 1, -1>>, <<410, 410, 1, 163>>, <<414, 414, 1, 130>>,
      <<417, 421, 2, -1>>, <<424, 424, 1, -1>>, <<429, 429, 1, -1>>,
      <<432, 432, 1, -1>>, <<436, 438, 2, -1>>, <<441, 441, 1, -1>>,
      <<445, 445, 1, -1>>, <<447, 447, 1, 56>>, <<453, 453, 1, -1>>,
      <<454, 454, 1, -2>>, <<456, 456, 1, -1>>, <<457, 457, 1, -2>>,
      <<459, 459, 1, -1>>, <<460, 460, 1, -2>>, <<462, 476, 2, -1>>,
      <<477, 477, 1, -79>>, <<479, 495, 2, -1>>, <<498, 498, 1, -1>>,
      <<499, 499, 1, -2>>, <<501, 501, 1, -1>>, <<505, 543, 2, -1>>,
      <<547, 563, 2, -1>>, <<572, 572, 1, -1>>, <<575, 576, 1, 10815>>,
      <<578, 578, 1, -1>>, <<583, 591, 2, -1>>, <<592, 592, 1, 10783>>,
      <<593, 593, 1, 10780>>, <<594, 594, 1, 10782>>, <<595, 595, 1, -210>>,
      <<596, 596, 1, -206>>, <<598, 599, 1, -205>>, <<601, 601, 1, -202>>,
      <<603, 603, 1, -203>>, <<604, 604, 1, 42319>>, <<608, 608, 1, -205>>,
      <<609, 609, 1, 42315>>, <<611, 611, 1, -207>>, <<613, 613, 1, 42280>>,
      <<614, 614, 1, 42308>>, <<616, 616, 1, -209>>, <<617, 617, 1, -211>>,
      <<618, 618, 1, 42308>>, <<619, 619, 1, 10743>>, <<620, 620, 1, 42305>>,
      <<623, 623, 1, -211>>, <<625, 625, 1, 10749>>, <<626, 626, 1, -213>>,
      <<629, 629, 1, -214>>, <<637, 637, 1, 10727>>, <<640, 640, 1, -218>>,
      <<642, 642, 1, 42307>>, <<643, 643, 1, -218>>, <<647, 647, 1, 42282>>,
      <<648, 648, 1, -218>>, <<649, 649, 1, -69>>, <<650, 651, 1, -217>>,
      <<652, 652, 1, -71>>, <<658, 658, 1, -219>>, <<669, 669, 1, 42261>>,
      <<670, 670, 1, 42258>>, <<837, 837, 1, 84>>, <<881, 883, 2, -1>>,
      <<887, 887, 1, -1>>, <<891, 893, 1, 130>>, <<940, 940, 1, -38>>,
      <<941, 943, 1, -37>>, <<945, 961, 1, -32>>, <<962, 962, 1, -31>>,
      <<963, 971, 1, -32>>, <<972, 972, 1, -64>>, <<973, 974, 1, -63>>,
      <<976, 976, 1, -62>>, <<977, 977, 1, -57>>, <<981, 981, 1, -47>>,
      <<982, 982, 1, -54>>, <<983, 983, 1, -8>>, <<985, 1007, 2, -1>>,
      <<1008, 1008, 1, -86>>, <<1009, 1009, 1, -80>>, <<1010, 1010, 1, 7>>,
      <<1011, 1011, 1, -116>>, <<1013, 1013, 1, -96>>, <<1016, 1016, 1, -1>>,
      <<1019, 1019, 1, -1>>, <<1072, 1103, 1, -32>>, <<1104, 1119, 1, -80>>,
      <<1121, 1153, 2, -1>>, <<1163, 1215, 2, -1>>, <<1218, 1230, 2, -1>>,
      <<1231, 1231, 1, -15>>, <<1233, 1327, 2, -1>>, <<1377, 1414, 1, -48>>,
      <<4304, 4346, 1, 3008>>, <<4349, 4351, 1, 3008>>,
      <<5112, 5117, 1, -8>>, <<7296, 7296, 1, -6254>>,
      <<7297, 7297, 1, -6253>>, <<7298, 7298, 1, -6244>>,
      <<7299, 7300, 1, -6242>>, <<7301, 7301, 1, -6243>>,
      <<7302, 7302, 1, -6236>>, <<7303, 7303, 1, -6181>>,
      <<7304, 7304, 1, 35266>>, <<7545, 7545, 1, 35332>>,
      <<7549, 7549, 1, 3814>>, <<7566, 7566, 1, 35384>>,
      <<7681, 7829, 2, -1>>, <<7835, 7835, 1, -59>>, <<7841, 7935, 2, -1>>,
      <<7936, 7943, 1, 8>>, <<7952, 7957, 1, 8>>, <<7968, 7975, 1, 8>>,
      <<7984, 7991, 1, 8>>, <<8000, 8005, 1, 8>>, <<8017, 8023, 2, 8>>,
      <<8032, 8039, 1, 8>>, <<8048, 8049, 1, 74>>, <<8050, 8053, 1, 86>>,
      <<8054, 8055, 1, 100>>, <<8056, 8057, 1, 128>>, <<8058, 8059, 1, 112>>,
      <<8060, 8061, 1, 126>>, <<8112, 8113, 1, 8>>, <<8126, 8126, 1, -7205>>,
      <<8144, 8145, 1, 8>>, <<8160, 8161, 1, 8>>, <<8165, 8165, 1, 7>>,
      <<8526, 8526, 1, -28>>, <<8560, 8575, 1, -16>>, <<8580, 8580, 1, -1>>,
      <<9424, 9449, 1, -26>>, <<11312, 11359, 1, -48>>,
      <<11361, 11361, 1, -1>>, <<11365, 11365, 1, -10795>>,
      <<11366, 11366, 1, -10792>>, <<11368, 11372, 2, -1>>,
      <<11379, 11379, 1, -1>>, <<11382, 11382, 1, -1>>,
      <<11393, 11491, 2, -1>>, <<11500, 11502, 2, -1>>,
      <<11507, 11507, 1, -1>>, <<11520, 11557, 1, -7264>>,
      <<11559, 11559, 1, -7264>>, <<11565, 11565, 1, -7264>>,
      <<42561, 42605, 2, -1>>, <<42625, 42651, 2, -1>>,
      <<42787, 42799, 2, -1>>, <<42803, 42863, 2, -1>>,
      <<42874, 42876, 2, -1>>, <<42879, 42887, 2, -1>>,
      <<42892, 42892, 1, -1>>, <<42897, 42899, 2, -1>>,
      <<42900, 42900, 1, 48>>, <<42903, 42921, 2, -1>>,
      <<42933, 42947, 2, -1>>, <<42952, 42954, 2, -1>>,
      <<42961, 42961, 1, -1>>, <<42967, 42969, 2, -1>>,
      <<42998, 42998, 1, -1>>, <<43859, 43859, 1, -928>>,
      <<43888, 43967, 1, -38864>>, <<65345, 65370, 1, -32>>,
      <<66600, 66639, 1, -40>>, <<66776, 66811, 1, -40>>,
      <<66967, 67003, 2, -39>>, <<66968, 66976, 2, -39>>,
      <<66980, 66992, 2, -39>>, <<66996, 67000, 2, -39>>,
      <<67004, 67004, 1, -39>>, <<68800, 68850, 1, -64>>,
      <<71872, 71903, 1, -32>>, <<93792, 93823, 1, -32>>,
      <<125218, 125251, 1, -34>>
   }

\* str.upper(), characters whose upper case is several characters
UpperSpecial ==
   {
      <<223, <<83, 83>>>>, <<329, <<700, 78>>>>, <<496, <<74, 780>>>>,
      <<912, <<921, 776, 769>>>>, <<944, <<933, 776, 769>>>>,
      <<1415, <<1333, 1362>>>>, <<7830, <<72, 817>>>>, <<7831, <<84, 776>>>>,
      <<7832, <<87, 778>>>>, <<7833, <<89, 778>>>>, <<7834, <<65, 702>>>>,
      <<8016, <<933, 787>>>>, <<8018, <<933, 787, 768>>>>,
      <<8020, <<933, 787, 769>>>>, <<8022, <<933, 787, 834>>>>,
      <<8064, <<7944, 921>>>>, <<8065, <<7945, 921>>>>,
      <<8066, <<7946, 921>>>>, <<8067, <<7947, 921>>>>,
      <<8068, <<7948, 921>>>>, <<8069, <<7949, 921>>>>,
      <<8070, <<7950, 921>>>>, <<8071, <<7951, 921>>>>,
      <<8072, <<7944, 921>>>>, <<8073, <<7945, 921>>>>,
      <<8074, <<7946, 921>>>>, <<8075, <<7947, 921>>>>,
      <<8076, <<7948, 921>>>>, <<8077, <<7949, 921>>>>,
      <<8078, <<7950, 921>>>>, <<8079, <<7951, 921>>>>,
      <<8080, <<7976, 921>>>>, <<8081, <<7977, 921>>>>,
      <<8082, <<7978, 921>>>>, <<8083, <<7979, 921>>>>,
      <<8084, <<7980, 921>>>>, <<8085, <<7981, 921>>>>,
      <<8086, <<7982, 921>>>>, <<8087, <<7983, 921>>>>,
      <<8088, <<7976, 921>>>>, <<8089, <<7977, 921>>>>,
      <<8090, <<7978, 921>>>>, <<8091, <<7979, 921>>>>,
      <<8092, <<7980, 921>>>>, <<8093, <<7981, 921>>>>,
      <<8094, <<7982, 921>>>>, <<8095, <<7983, 921>>>>,
      <<8096, <<8040, 921>>>>, <<8097, <<8041, 921>>>>,
      <<8098, <<8042, 921>>>>, <<8099, <<8043, 921>>>>,
      <<8100, <<8044, 921>>>>, <<8101, <<8045, 921>>>>,
      <<8102, <<8046, 921>>>>, <<8103, <<8047, 921>>>>,
      <<8104, <<8040, 921>>>>, <<8105, <<8041, 921>>>>,
      <<8106, <<8042, 921>>>>, <<8107, <<8043, 921>>>>,
      <<8108, <<8044, 921>>>>, <<8109, <<8045, 921>>>>,
      <<8110, <<8046, 921>>>>, <<8111, <<8047, 921>>>>,
      <<8114, <<8122, 921>>>>, <<8115, <<913, 921>>>>,
      <<8116, <<902, 921>>>>, <<8118, <<913, 834>>>>,
      <<8119, <<913, 834, 921>>>>, <<8124, <<913, 921>>>>,
      <<8130, <<8138, 921>>>>, <<8131, <<919, 921>>>>,
      <<8132, <<905, 921>>>>, <<8134, <<919, 834>>>>,
      <<8135, <<919, 834, 921>>>>, <<8140, <<919, 921>>>>,
      <<8146, <<921, 776, 768>>>>, <<8147, <<921, 776, 769>>>>,
      <<8150, <<921, 834>>>>, <<8151, <<921, 776, 834>>>>,
      <<8162, <<933, 776, 768>>>>, <<8163, <<933, 776, 769>>>>,
      <<8164, <<929, 787>>>>, <<8166, <<933, 834>>>>,
      <<8167, <<933, 776, 834>>>>, <<8178, <<8186, 921>>>>,
      <<8179, <<937, 921>>>>, <<8180, <<911, 921>>>>, <<8182, <<937, 834>>>>,
      <<8183, <<937, 834, 921>>>>, <<8188, <<937, 921>>>>,
      <<64256, <<70, 70>>>>, <<64257, <<70, 73>>>>, <<64258, <<70, 76>>>>,
      <<64259, <<70, 70, 73>>>>, <<64260, <<70, 70, 76>>>>,
      <<64261, <<83, 84>>>>, <<64262, <<83, 84>>>>,
      <<64275, <<1348, 1350>>>>, <<64276, <<1348, 1333>>>>,
      <<64277, <<1348, 1339>>>>, <<64278, <<1358, 1350>>>>,
      <<64279, <<1348, 1341>>>>
   }

\* the upper case of one character, as a string
UpperChar(c) ==
    IF c < 128
    THEN (IF c \in 97..122 THEN << c - 32 >> ELSE << c >>)
    ELSE IF \E r \in UpperRules : r[1] <= c /\ c <= r[2] /\ (c - r[1]) % r[3] = 0
    THEN LET r == CHOOSE q \in UpperRules :
                      q[1] <= c /\ c <= q[2] /\ (c - q[1]) % q[3] = 0
         IN  << c + r[4] >>
    ELSE IF \E p \in UpperSpecial : p[1] = c
    THEN (CHOOSE p \in UpperSpecial : p[1] = c)[2]
    ELSE << c >>

\* str.upper()
RECURSIVE StrUpper(_)
StrUpper(s) == IF s = << >> THEN << >> ELSE UpperChar(Head(s)) \o StrUpper(Tail(s))

RECURSIVE LStrip(_)
LStrip(s) == IF s = << >> THEN << >>
             ELSE IF IsSpace(Head(s)) THEN LStrip(Tail(s)) ELSE s

RECURSIVE RStrip(_)
RStrip(s) == IF s = << >> THEN << >>
             ELSE IF IsSpace(s[Len(s)]) THEN RStrip(SubSeq(s, 1, Len(s) - 1)) ELSE s

\* str.strip()
StrStrip(s) == RStrip(LStrip(s))

\* str(n) for n >= 0
RECURSIVE Decimal(_)
Decimal(n) == IF n < 10 THEN << 48 + n >>
              ELSE Decimal(n \div 10) \o << 48 + (n % 10) >>

\* f"{n:0{width}d}" for n >= 0
ZeroPad(n, width) ==
    LET d == Decimal(n)
    IN  IF Len(d) >= width THEN d
        ELSE [k \in 1..(width - Len(d)) |-> 48] \o d

---------------------------------------------------------------------------
(* utils.format_timestamp.  cli.py imports it from utils.py; it follows     *)
(* the documented HH:MM:SS,mmm format with the hours always present.       *)

\* format_timestamp(t, always_include_hours=True): HH:MM:SS,mmm
format_timestamp(ms) ==
    LET hours   == ms \div 3600000
        r1      == ms % 3600000
        minutes == r1 \div 60000
        r2      == r1 % 60000
        seconds == r2 \div 1000
        millis  == r2 % 1000
    IN  ZeroPad(hours, 2) \o << 58 >> \o ZeroPad(minutes, 2) \o << 58 >>  \* ":"
        \o ZeroPad(seconds, 2) \o << 44 >> \o ZeroPad(millis, 3)  \* ","

---------------------------------------------------------------------------
(* Paths and dicts. *)

TempDir == "tmp"        \* tempfile.gettempdir()
OutputDir == "out"      \* --output_dir

\* the module-level srt_path
srt_path == [dir |-> "D:/Programacion/Github/AutoVideo", stem |-> "subtitled_video", ext |-> ""]

\* os.path.join(d, f"{stem}.{ext}")
JoinPath(d, stem, ext) == [dir |-> d, stem |-> stem, ext |-> ext]

DictHas(d, k) == \E n \in 1..Len(d) : d[n].key = k
DictGet(d, k) == d[CHOOSE n \in 1..Len(d) : d[n].key = k].value
\* d[k] = v: an existing key keeps its place
DictSet(d, k, v) ==
    IF DictHas(d, k)
    THEN [n \in 1..Len(d) |-> IF d[n].key = k THEN [key |-> k, value |-> v] ELSE d[n]]
    ELSE Append(d, [key |-> k, value |-> v])

NoFiles == [p \in {} |-> << >>]
WriteFile(files, p, content) ==
    [q \in (DOMAIN files) \cup {p} |-> IF q = p THEN content ELSE files[q]]

---------------------------------------------------------------------------
(* get_subtitles: from a transcription result to the cue list. *)

\* variant: segment.get("words", [])
SegmentWordsNoDefault(segment) ==
    IF "words" \in DOMAIN segment THEN segment.words ELSE << >>

\* segment.get("words", [{"word": text, "start": start, "end": end}])
SegmentWords(segment) ==
    IF "words" \in DOMAIN segment
    THEN segment.words
    ELSE << [word |-> segment.text, start |-> segment.start, end |-> segment.end] >>

\* variant: the pair's text without .upper()
PairCueNoUpper(w1, w2) ==
    [text  |-> StrStrip(w1.word) \o << 32 >> \o StrStrip(w2.word),
     start |-> w1.start,
     end   |-> w2.end]

\* the "Two words" branch
PairCue(w1, w2) ==
    [text  |-> StrUpper(StrStrip(w1.word) \o << 32 >> \o StrStrip(w2.word)),
     start |-> w1.start,
     end   |-> w2.end]

\* the "One word" branch
SingleCue(w) ==
    [text  |-> StrUpper(StrStrip(w.word)),
     start |-> w.start,
     end   |-> w.end]

\* variant: for i in range(n, len(words) - 1, 2), which skips a trailing word
RECURSIVE GroupFromPairsOnly(_, _)
GroupFromPairsOnly(words, n) ==
    IF n + 1 > Len(words) THEN << >>
    ELSE << PairCue(words[n], words[n + 1]) >> \o GroupFromPairsOnly(words, n + 2)

\* for i in range(n, len(words), 2), n being 1-based here
RECURSIVE GroupFrom(_, _)
GroupFrom(words, n) ==
    IF n > Len(words) THEN << >>
    ELSE IF n + 1 <= Len(words)
         THEN << PairCue(words[n], words[n + 1]) >> \o GroupFrom(words, n + 2)
         ELSE << SingleCue(words[n]) >>

\* the cues one segment appends to subtitle_data
SegmentCues(segment) == GroupFrom(SegmentWords(segment), 1)

\* variant: each segment's cues put in front of the earlier ones
RECURSIVE BuildSubtitleDataPrepend(_)
BuildSubtitleDataPrepend(segments) ==
    IF segments = << >> THEN << >>
    ELSE BuildSubtitleDataPrepend(Tail(segments)) \o SegmentCues(Head(segments))

\* for segment in result["segments"]
RECURSIVE BuildSubtitleData(_)
BuildSubtitleData(segments) ==
    IF segments = << >> THEN << >>
    ELSE SegmentCues(Head(segments)) \o BuildSubtitleData(Tail(segments))

---------------------------------------------------------------------------
(* write_styled_srt: the lines printed to the file. *)

Arrow == << 32, 45, 45, 62, 32 >>  \* " --> "

\* the four lines print() emits for item number n
SrtBlock(n, item) ==
    << Decimal(n),
       format_timestamp(item.start) \o Arrow \o format_timestamp(item.end),
       item.text,
       << >> >>

\* for i, item in enumerate(subtitle_data, start=n)
RECURSIVE SrtFrom(_, _)
SrtFrom(data, n) ==
    IF data = << >> THEN << >>
    ELSE SrtBlock(n, Head(data)) \o SrtFrom(Tail(data), n + 1)

\* variant: enumerate(subtitle_data) without start=1
write_styled_srt_from0(data) == SrtFrom(data, 0)

write_styled_srt(data) == SrtFrom(data, 1)

---------------------------------------------------------------------------
(* Inputs: batches of video paths and transcription results. *)

VideoPaths ==
    { [dir |-> "a", stem |-> "x", ext |-> "mp4"],
      [dir |-> "b", stem |-> "x", ext |-> "mp4"],
      [dir |-> "a", stem |-> "y", ext |-> "mkv"] }

SeqsUpTo(S, n) == UNION { [1..k -> S] : k \in 0..n }

\* nargs="+": at least one video
Batches == SeqsUpTo(VideoPaths, MaxVideos) \ { << >> }
SingleBatch == { << [dir |-> "a", stem |-> "x", ext |-> "mp4"] >> }

\* the segment of the documented example: hello 1.0-1.5, world 1.6-3.0
ExampleSegment ==
    [start |-> 1000, end |-> 3000,
     text  |-> << 104, 101, 108, 108, 111, 32, 119, 111, 114, 108, 100 >>,  \* "hello world"
     words |-> << [word |-> << 104, 101, 108, 108, 111 >>, start |-> 1000, end |-> 1500],  \* "hello"
                  [word |-> << 119, 111, 114, 108, 100 >>, start |-> 1600, end |-> 3000] >>]  \* "world"

\* words with free text and timing: trimmed or not, blank, zero-length
WordTexts == { << 104, 105 >>, << 32, 79, 107, 32 >>, << 32 >> }  \* "hi", " Ok ", " "
WordSpans == { << 0, 500 >>, << 500, 1600 >>, << 1600, 1600 >> }
FreeWords ==
    { [word |-> t, start |-> sp[1], end |-> sp[2]] : t \in WordTexts, sp \in WordSpans }

SegTexts == { << >>, << 32, 72, 105, 32 >> }  \* " Hi "
SegSpans == { << 0, 2000 >>, << 2000, 2000 >>, << 3000, 1000 >> }

\* segments without the "words" key; the last text is FF "\u00df\u00e9" NEL
PlainSegments ==
    { [start |-> sp[1], end |-> sp[2], text |-> t] :
        sp \in SegSpans, t \in SegTexts \cup { << 32 >>, << 12, 223, 233, 133 >> } }

\* segments with a "words" list of 0..MaxWords free words
WordSegments ==
    { [start |-> sp[1], end |-> sp[2], text |-> t, words |-> ws] :
        sp \in SegSpans, t \in SegTexts, ws \in SeqsUpTo(FreeWords, MaxWords) }

\* a transcript's words on one time line; a segment carries a run of them:
\* "the", " \u00e9t\u00e9", " sat", NBSP CR, " on", NBSP "stra\u00dfe", " end"
Timeline ==
    << [word |-> << 116, 104, 101 >>,      start |-> 0,     end |-> 500],  \* "the"
       [word |-> << 32, 233, 116, 233 >>, start |-> 500, end |-> 1600],
       [word |-> << 32, 115, 97, 116 >>, start |-> 1600,  end |-> 3000],  \* " sat"
       [word |-> << 160, 13 >>,           start |-> 3000,  end |-> 3000],
       [word |-> << 32, 111, 110 >>,      start |-> 3000,  end |-> 61250],  \* " on"
       [word |-> << 160, 115, 116, 114, 97, 223, 101 >>,
                                          start |-> 60000, end |-> 3661250],
       [word |-> << 32, 101, 110, 100 >>, start |-> 3000,  end |-> 3662000] >>  \* " end"

RECURSIVE ConcatWords(_)
ConcatWords(ws) == IF ws = << >> THEN << >> ELSE Head(ws).word \o ConcatWords(Tail(ws))

SliceSegment(a, b) ==
    LET ws == SubSeq(Timeline, a, b)
    IN  [start |-> ws[1].start, end |-> ws[Len(ws)].end,
         text |-> ConcatWords(ws), words |-> ws]

SliceSegments ==
    { SliceSegment(p[1], p[2]) :
        p \in { q \in (1..Len(Timeline)) \X (1..Len(Timeline)) :
                   q[1] <= q[2] /\ q[2] - q[1] < MaxWords } }

\* besides: a segment with an empty word list, and one whose word lies
\* outside the segment's own span
SeqSegments ==
    SliceSegments \cup PlainSegments
    \cup { [start |-> 0, end |-> 500, text |-> << 104, 109 >>, words |-> << >>],  \* "hm"
           [start |-> 0, end |-> 500, text |-> << 77, 97, 116 >>,  \* "Mat"
            words |-> << Timeline[6] >>] }

\* results made of one free segment, and of 0..MaxSegs time-line segments
CueResults ==
    { << s >> : s \in WordSegments \cup PlainSegments \cup { ExampleSegment } }
    \cup SeqsUpTo(SeqSegments, MaxSegs)

PipelineResults ==
    { << >>,
      << ExampleSegment >>,
      << [start |-> 0, end |-> 2000, text |-> << 32, 72, 105, 32 >>] >>,  \* " Hi "
      << SliceSegment(1, 3), SliceSegment(5, 5) >> }

---------------------------------------------------------------------------
(* main(): the three loops, one iteration per step. *)

Ended == pc \in { "done", "aborted", "crashed" }

\* --model choices, and model_name.endswith(".en")
ModelNames == { "small", "small.en" }
EndsWithEn(name) == name \in { "tiny.en", "base.en", "small.en", "medium.en" }

\* --language choices
Languages == { "auto", "en" }

\* names utils.filename may return
FileNames == { "x", "y" }

\* utils.filename on the videos of a batch: any function from their paths to
\* names, whether or not it tells two paths apart
FilenameChoices(batch, names) == [{ batch[n] : n \in 1..Len(batch) } -> names]

InitWith(batches, modes, names) ==
    /\ pc = "parse_args"
    /\ model_name \in ModelNames
    /\ language \in Languages
    /\ video \in batches
    /\ filename \in FilenameChoices(video, names)
    /\ \E m \in modes : output_srt = m[1] /\ srt_only = m[2]
    /\ i = 1
    /\ audio_paths = << >>
    /\ subtitles_path = << >>
    /\ result = << >>
    /\ subtitle_data = << >>
    /\ fs = NoFiles
    /\ renders = << >>
    /\ saved = {}
    /\ failed = << >>

\* main before the loops: the options are popped from args, and popped again
\* after the language test; only the elif branch parses the arguments anew,
\* on any other path the second args.pop("model") raises KeyError
ParseArgsStep ==
    /\ pc = "parse_args"
    /\ pc' = (IF ~EndsWithEn(model_name) /\ language # "auto"
              THEN "get_audio" ELSE "crashed")
    /\ UNCHANGED << model_name, language, filename, video, output_srt, srt_only, i,
                    audio_paths, subtitles_path, result, subtitle_data, fs,
                    renders, saved, failed >>

\* get_audio: the wav path of one video
AudioPath(path) == JoinPath(TempDir, filename[path], "wav")

\* get_subtitles: the srt path of one video
SubtitlePath(path) ==
    JoinPath(IF output_srt \/ srt_only THEN OutputDir ELSE TempDir, filename[path], "srt")

\* main: the path handed to the subtitles filter when rendering `path`
RenderSubtitles(path) == srt_path

\* main: the output video of `path`
OutPath(path) == JoinPath(OutputDir, filename[path], "mp4")

\* one iteration of get_audio's loop; ffmpeg raising ends the run
GetAudioStep ==
    /\ pc = "get_audio"
    /\ LET path == video[i]
           output_path == AudioPath(path)
       IN  \/ /\ fs' = WriteFile(fs, output_path, [kind |-> "wav", source |-> path])
              /\ audio_paths' = DictSet(audio_paths, path, output_path)
              /\ IF i = Len(video)
                 THEN pc' = "get_subtitles" /\ i' = 1
                 ELSE pc' = pc /\ i' = i + 1
              /\ UNCHANGED failed
           \/ /\ pc' = "aborted"
              /\ failed' = << path >>
              /\ UNCHANGED << fs, audio_paths, i >>
    /\ UNCHANGED << model_name, language, filename, video, output_srt, srt_only,
                    subtitles_path, result, subtitle_data, renders, saved >>

\* one iteration of get_subtitles' loop; transcribe raising ends the run;
\* after the last one main returns (srt_only) or starts rendering
GetSubtitlesStep(results) ==
    /\ pc = "get_subtitles"
    /\ LET path == audio_paths[i].key
           local_srt_path == SubtitlePath(path)
       IN  \/ \E r \in results :
                 /\ result' = r
                 /\ subtitle_data' = BuildSubtitleData(r)
                 /\ fs' = WriteFile(fs, local_srt_path,
                                    [kind |-> "srt",
                                     lines |-> write_styled_srt(BuildSubtitleData(r))])
                 /\ subtitles_path' = DictSet(subtitles_path, path, local_srt_path)
                 /\ IF i = Len(audio_paths)
                    THEN pc' = (IF srt_only THEN "done" ELSE "render") /\ i' = 1
                    ELSE pc' = pc /\ i' = i + 1
                 /\ UNCHANGED failed
           \/ /\ pc' = "aborted"
              /\ failed' = << path >>
              /\ UNCHANGED << result, subtitle_data, fs, subtitles_path, i >>
    /\ UNCHANGED << model_name, language, filename, video, output_srt, srt_only,
                    audio_paths, renders, saved >>

\* one iteration of main's render loop; ffmpeg.Error is printed and re-raised
RenderStep ==
    /\ pc = "render"
    /\ LET path == subtitles_path[i].key
           out_path == OutPath(path)
       IN  \/ /\ fs' = WriteFile(fs, out_path,
                                 [kind |-> "mp4", source |-> path,
                                  subtitles |-> RenderSubtitles(path)])
              /\ renders' = Append(renders, [video |-> path,
                                             subtitles |-> RenderSubtitles(path),
                                             out |-> out_path])
              /\ saved' = saved \cup { path }
              /\ IF i = Len(subtitles_path)
                 THEN pc' = "done" /\ i' = i
                 ELSE pc' = pc /\ i' = i + 1
              /\ UNCHANGED failed
           \/ /\ pc' = "aborted"
              /\ failed' = << path >>
              /\ UNCHANGED << fs, renders, saved, i >>
    /\ UNCHANGED << model_name, language, filename, video, output_srt, srt_only,
                    audio_paths, subtitles_path, result, subtitle_data >>

NextWith(results) ==
    ParseArgsStep \/ GetAudioStep \/ GetSubtitlesStep(results) \/ RenderStep

\* the batch pipeline
Init == InitWith(Batches, BOOLEAN \X BOOLEAN, FileNames)
Next == NextWith(PipelineResults)
Spec == Init /\ [][Next]_vars

\* one video, every transcription result of CueResults; the cue builder and
\* the srt writer do not read the video's name
InitCues == InitWith(SingleBatch, { << FALSE, FALSE >>, << TRUE, TRUE >> }, { "x" })
NextCues == NextWith(CueResults)
SpecCues == InitCues /\ [][NextCues]_vars

---------------------------------------------------------------------------
(* Vocabulary of the properties. *)

\* the group size of "Group words into pairs"
GroupSize == 2

CeilDiv(n, g) == (n + g - 1) \div g

\* get_subtitles has completed an iteration: result and subtitle_data are its
Acted == Len(subtitles_path) > 0

HasWords(seg) == "words" \in DOMAIN seg
NoWordTiming(seg) == ~HasWords(seg) \/ seg.words = << >>

\* s without its leading and trailing whitespace, stated by position
NonSpaceAt(s) == { k \in 1..Len(s) : ~IsSpace(s[k]) }
Trimmed(s) ==
    IF NonSpaceAt(s) = {} THEN << >>
    ELSE SubSeq(s, CHOOSE a \in NonSpaceAt(s) : \A b \in NonSpaceAt(s) : a <= b,
                   CHOOSE a \in NonSpaceAt(s) : \A b \in NonSpaceAt(s) : a >= b)

\* number of cues of a segment: one per group of words, one for a segment
\* without the "words" key
CueCount(seg) == IF HasWords(seg) THEN CeilDiv(Len(seg.words), GroupSize) ELSE 1

RECURSIVE CuesBefore(_, _)
CuesBefore(segs, k) == IF k <= 1 THEN 0 ELSE CuesBefore(segs, k - 1) + CueCount(segs[k - 1])

\* the cues of segment k within subtitle_data
CuesOf(k) == SubSeq(subtitle_data, CuesBefore(result, k) + 1,
                    CuesBefore(result, k) + CueCount(result[k]))

Partitioned == Len(subtitle_data) = CuesBefore(result, Len(result) + 1)

\* the same, counting as the fallback policy is documented: one cue for every
\* segment whose words are absent or empty
DocCueCount(seg) == IF NoWordTiming(seg) THEN 1 ELSE CeilDiv(Len(seg.words), GroupSize)

RECURSIVE DocCuesBefore(_, _)
DocCuesBefore(segs, k) ==
    IF k <= 1 THEN 0 ELSE DocCuesBefore(segs, k - 1) + DocCueCount(segs[k - 1])

Min2(a, b) == IF a <= b THEN a ELSE b

---------------------------------------------------------------------------
(* C1: the fallback policy. *)

\* C1 as stated: every segment without word timing (words absent or empty)
\* yields exactly one cue, with the segment's start, end and text verbatim.
C1_FallbackVerbatim ==
    Acted =>
        /\ Len(subtitle_data) = DocCuesBefore(result, Len(result) + 1)
        /\ \A k \in 1..Len(result) :
              NoWordTiming(result[k]) =>
                  subtitle_data[DocCuesBefore(result, k) + 1] =
                      [text |-> result[k].text, start |-> result[k].start,
                       end |-> result[k].end]

\* C1 amended: every segment without the "words" key yields exactly one cue
\* with the segment's start and end verbatim and the segment's text trimmed
\* and upper-cased; a segment whose "words" list is empty yields no cue.
C1_FallbackTrimmedUpper ==
    Acted =>
        /\ Partitioned
        /\ \A k \in 1..Len(result) :
              /\ ~HasWords(result[k]) =>
                    CuesOf(k) = << [text |-> StrUpper(Trimmed(result[k].text)),
                                    start |-> result[k].start,
                                    end |-> result[k].end] >>
              /\ (HasWords(result[k]) /\ result[k].words = << >>) => CuesOf(k) = << >>

C1_Witness ==
    /\ Acted
    /\ Len(result) = 2
    /\ ~HasWords(result[1]) /\ result[1].text = << 32, 72, 105, 32 >>  \* " Hi "
    /\ HasWords(result[2]) /\ result[2].words = << >>
    /\ subtitle_data = << [text |-> << 72, 73 >>, start |-> result[1].start,
                            end |-> result[1].end] >>

---------------------------------------------------------------------------
(* C2: number of cues of a segment with words. *)

\* C2: a segment with N >= 1 words yields ceil(N/G) cues; group g starts at
\* word G(g-1)+1 and ends at word min(G*g, N), so every group but the last has
\* G words and the last cue ends where the last word ends.
C2_CeilGroups ==
    Acted =>
        /\ Partitioned
        /\ \A k \in 1..Len(result) :
              (HasWords(result[k]) /\ Len(result[k].words) >= 1) =>
                  LET ws == result[k].words
                      cs == CuesOf(k)
                  IN  /\ Len(cs) = CeilDiv(Len(ws), GroupSize)
                      /\ cs[Len(cs)].end = ws[Len(ws)].end
                      /\ \A g \in 1..Len(cs) :
                            /\ cs[g].start = ws[GroupSize * (g - 1) + 1].start
                            /\ cs[g].end = ws[Min2(GroupSize * g, Len(ws))].end

C2_Witness ==
    /\ Acted
    /\ Len(result) = 1
    /\ HasWords(result[1]) /\ Len(result[1].words) = 3
    /\ Len(subtitle_data) = 2
    /\ subtitle_data[2].end = result[1].words[3].end
    /\ subtitle_data[2].start = result[1].words[3].start

---------------------------------------------------------------------------
(* C3: start, end and text of a group's cue. *)

ExampleCue ==
    [start |-> 1000, end |-> 3000,
     text |-> << 72, 69, 76, 76, 79, 32, 87, 79, 82, 76, 68 >>]  \* "HELLO WORLD"

\* the words of group g of a word list, as given, joined with one space
RECURSIVE JoinRaw(_)
JoinRaw(ws) ==
    IF Len(ws) = 1 THEN ws[1].word ELSE ws[1].word \o << 32 >> \o JoinRaw(Tail(ws))

\* the same with every word trimmed first
RECURSIVE JoinTrimmed(_)
JoinTrimmed(ws) ==
    IF Len(ws) = 1 THEN Trimmed(ws[1].word)
    ELSE Trimmed(ws[1].word) \o << 32 >> \o JoinTrimmed(Tail(ws))

GroupOf(ws, g) == SubSeq(ws, GroupSize * (g - 1) + 1, Min2(GroupSize * g, Len(ws)))

\* C3 as stated: the cue of a group starts at its first word's start, ends at
\* its last word's end, and its text is the group's words joined with exactly
\* one space and upper-cased; the example segment yields HELLO WORLD.
C3_GroupCueRawJoin ==
    Acted =>
        /\ Partitioned
        /\ result = << ExampleSegment >> => subtitle_data = << ExampleCue >>
        /\ \A k \in 1..Len(result) :
              HasWords(result[k]) =>
                  \A g \in 1..CueCount(result[k]) :
                      LET grp == GroupOf(result[k].words, g)
                      IN  CuesOf(k)[g] = [text |-> StrUpper(JoinRaw(grp)),
                                          start |-> grp[1].start,
                                          end |-> grp[Len(grp)].end]

\* C3 amended: the same with each word stripped of its leading and trailing
\* whitespace before the join.
C3_GroupCueTrimmedJoin ==
    Acted =>
        /\ Partitioned
        /\ result = << ExampleSegment >> => subtitle_data = << ExampleCue >>
        /\ \A k \in 1..Len(result) :
              HasWords(result[k]) =>
                  \A g \in 1..CueCount(result[k]) :
                      LET grp == GroupOf(result[k].words, g)
                      IN  CuesOf(k)[g] = [text |-> StrUpper(JoinTrimmed(grp)),
                                          start |-> grp[1].start,
                                          end |-> grp[Len(grp)].end]

C3_Witness ==
    /\ Acted
    /\ Len(result) = 1
    /\ HasWords(result[1]) /\ Len(result[1].words) = 2
    /\ result[1].words[1].word = << 32, 79, 107, 32 >>  \* " Ok "
    /\ result[1].words[2].word = << 104, 105 >>  \* "hi"
    /\ subtitle_data = << [text |-> << 79, 75, 32, 72, 73 >>,  \* "OK HI"
                          start |-> result[1].words[1].start,
                          end |-> result[1].words[2].end] >>

---------------------------------------------------------------------------
(* C4: the cue-sequence invariant. *)

NonBlank(s) == NonSpaceAt(s) # {}

\* segments as the data model has them (end > start, non-empty text), ordered
\* by start; words of a segment ordered by start and non-overlapping
OrderedInput(segs) ==
    /\ \A k \in 1..Len(segs) : segs[k].start < segs[k].end /\ segs[k].text # << >>
    /\ \A k \in 1..(Len(segs) - 1) : segs[k].start <= segs[k + 1].start
    /\ \A k \in 1..Len(segs) :
          HasWords(segs[k]) =>
              \A j \in 1..(Len(segs[k].words) - 1) :
                  /\ segs[k].words[j].start <= segs[k].words[j + 1].start
                  /\ segs[k].words[j].end <= segs[k].words[j + 1].start

\* in addition: segments and words of positive duration from time 0 on,
\* consecutive segments not overlapping, words inside their segment, and every
\* text that becomes a cue holding a non-whitespace character
ProperInput(segs) ==
    /\ OrderedInput(segs)
    /\ \A k \in 1..(Len(segs) - 1) : segs[k].end <= segs[k + 1].start
    /\ \A k \in 1..Len(segs) :
          /\ 0 <= segs[k].start /\ segs[k].start < segs[k].end
          /\ ~HasWords(segs[k]) => NonBlank(segs[k].text)
          /\ HasWords(segs[k]) =>
                \A j \in 1..Len(segs[k].words) :
                    LET w == segs[k].words[j]
                    IN  /\ 0 <= w.start /\ w.start < w.end
                        /\ segs[k].start <= w.start /\ w.end <= segs[k].end
                        /\ NonBlank(w.word)

CueSequenceOk(cues) ==
    /\ \A n \in 1..(Len(cues) - 1) : cues[n].start <= cues[n + 1].start
    /\ \A n \in 1..Len(cues) :
          /\ 0 <= cues[n].start /\ cues[n].start < cues[n].end
          /\ cues[n].text # << >>

\* C4 as stated: for segments of the data model ordered by start whose words are ordered and
\* non-overlapping, cue starts never decrease and every cue has
\* 0 <= start < end and a non-empty text.
C4_CueInvariantOrdered == (Acted /\ OrderedInput(result)) => CueSequenceOk(subtitle_data)

\* C4 amended: the same for inputs in which, besides, consecutive segments do
\* not overlap, every word lies inside its segment, every segment and word has
\* 0 <= start < end, and every word's text (the segment's text when it has no
\* "words" key) holds a non-whitespace character.
C4_CueInvariantProper == (Acted /\ ProperInput(result)) => CueSequenceOk(subtitle_data)

C4_Witness ==
    /\ Acted
    /\ ProperInput(result)
    /\ Len(result) = 2
    /\ HasWords(result[1]) /\ Len(result[1].words) = 3
    /\ HasWords(result[2]) /\ Len(result[2].words) = 1
    /\ Len(subtitle_data) = 3
    /\ subtitle_data[2].start < subtitle_data[3].start

---------------------------------------------------------------------------
(* C5: malformed segments. *)

Malformed(seg) == (seg.text = << >> /\ NoWordTiming(seg)) \/ seg.start > seg.end

\* C5: get_subtitles writes no subtitle file from a result that holds a
\* malformed segment (empty text and no words, or start > end): it fails
\* instead, and no cue of such a segment is emitted.
C5_MalformedRejected ==
    Acted => \A k \in 1..Len(result) : ~Malformed(result[k])

---------------------------------------------------------------------------
(* C9: the SRT file against the cue list. *)

IsDigits(s) == \A k \in 1..Len(s) : s[k] \in 48..57
DigitValue(c) == c - 48

RECURSIVE DigitsValue(_)
DigitsValue(s) ==
    IF s = << >> THEN 0
    ELSE 10 * DigitsValue(SubSeq(s, 1, Len(s) - 1)) + DigitValue(s[Len(s)])

\* the number a line of decimal digits reads as, -1 for any other line
ReadNumber(s) == IF s # << >> /\ IsDigits(s) THEN DigitsValue(s) ELSE -1

\* the milliseconds HH:MM:SS,mmm reads as, -1 for any other text
ReadTimestamp(s) ==
    IF /\ Len(s) = 12
       /\ s[3] = 58 /\ s[6] = 58 /\ s[9] = 44  \* ":", ":", ","
       /\ IsDigits(SubSeq(s, 1, 2) \o SubSeq(s, 4, 5) \o SubSeq(s, 7, 8) \o SubSeq(s, 10, 12))
       /\ DigitsValue(SubSeq(s, 4, 5)) < 60 /\ DigitsValue(SubSeq(s, 7, 8)) < 60
    THEN ((DigitsValue(SubSeq(s, 1, 2)) * 60 + DigitsValue(SubSeq(s, 4, 5))) * 60
          + DigitsValue(SubSeq(s, 7, 8))) * 1000 + DigitsValue(SubSeq(s, 10, 12))
    ELSE -1

\* the file get_subtitles wrote in its last iteration
LastSrtLines == fs[subtitles_path[Len(subtitles_path)].value].lines

\* C9: the file holds one block of four lines per cue, in cue order: the
\* index k (1..n), the time range reading back as the cue's start and end,
\* the cue's text unchanged, and a blank line.
C9_SrtBlocksInOrder ==
    Acted =>
        LET lines == LastSrtLines
            n == Len(subtitle_data)
        IN  /\ Len(lines) = 4 * n
            /\ \A k \in 1..n :
                  /\ ReadNumber(lines[4 * k - 3]) = k
                  /\ Len(lines[4 * k - 2]) = 29
                  /\ ReadTimestamp(SubSeq(lines[4 * k - 2], 1, 12)) = subtitle_data[k].start
                  /\ SubSeq(lines[4 * k - 2], 13, 17) = << 32, 45, 45, 62, 32 >>  \* " --> "
                  /\ ReadTimestamp(SubSeq(lines[4 * k - 2], 18, 29)) = subtitle_data[k].end
                  /\ lines[4 * k - 1] = subtitle_data[k].text
                  /\ lines[4 * k] = << >>

C9_Witness ==
    /\ Acted
    /\ Len(subtitle_data) = 3
    /\ subtitle_data[3].end = 3661250
    /\ subtitle_data[1].start > subtitle_data[2].start
    /\ Len(LastSrtLines) = 12
    /\ LastSrtLines[9] = << 51 >>  \* "3"

---------------------------------------------------------------------------
(* C6, C7, C10: the batch pipeline. *)

\* a video has an outcome: its output was reported saved, its failure was
\* raised, or (srt_only) its subtitle file was written
HasOutcome(path) ==
    \/ path \in saved
    \/ failed = << path >>
    \/ srt_only /\ DictHas(subtitles_path, path)

\* C6: when the batch has been processed to its end or a video's step has
\* failed, every video of the batch has its own outcome; one video's failure
\* does not keep the others from being processed.
C6_EveryVideoHasOutcome ==
    pc \in { "done", "aborted" } => \A n \in 1..Len(video) : HasOutcome(video[n])

\* C7: when the run has ended, on any exit path, no file the run wrote in the
\* temporary directory is left.
C7_NoTempFileLeft ==
    Ended => \A p \in DOMAIN fs : p.dir # TempDir

\* utils.filename tells the videos of the batch apart
FilenameInjective ==
    \A p, q \in DOMAIN filename : p # q => filename[p] # filename[q]

\* distinct videos have distinct audio paths and distinct subtitle paths.
\* get_audio and get_subtitles add nothing of their own to the name
\* utils.filename returns, so this holds exactly when FilenameInjective does;
\* the sources do not say which.
DistinctTempNames ==
    /\ \A m, n \in 1..Len(audio_paths) :
          m # n => audio_paths[m].value # audio_paths[n].value
    /\ \A m, n \in 1..Len(subtitles_path) :
          m # n => subtitles_path[m].value # subtitles_path[n].value

\* with an injective utils.filename the paths are distinct
DistinctIfInjective == FilenameInjective => DistinctTempNames

\* with any other utils.filename two videos share a path once both are stored
SharedIfNotInjective ==
    (~FilenameInjective /\ Len(audio_paths) = Cardinality(DOMAIN filename))
        => ~DistinctTempNames

\* C10: every render burns into its video the subtitle file get_subtitles
\* stored under that video's key.
C10_RenderUsesOwnSubtitles ==
    \A n \in 1..Len(renders) :
        renders[n].subtitles = DictGet(subtitles_path, renders[n].video)

===========================================================================
